---------------------------- MODULE Spec2Model ----------------------------
(***************************************************************************)
(* PriorityQueue<int> of priority_queue.h (a binary min-heap kept in a    *)
(* std::vector with a filler entry at position 0) and the harness of      *)
(* test.cpp that drives it.                                                *)
(*                                                                         *)
(* The vector `heap` is a sequence: vector position p is heap[p + 1], so   *)
(* Len(heap) is heap.size() and position 0 is the filler.  insert and      *)
(* removeMin are modelled statement by statement: one action for the code  *)
(* before the loop, one for an iteration of the loop, one for the exit.    *)
(***************************************************************************)
EXTENDS Integers, Sequences, FiniteSets

\* ------------------------------------------------------------- bounds
\* Entries are the integers 0..MaxVal.
MaxVal == 2
\* At most MaxInserts calls of insert in a run.
MaxInserts == 5

Values == 0 .. MaxVal

\* ---------------------------------------------------------- constants
\* heap(01): one value-initialised int, the filler at position 0.
Filler == 0
\* size_t arithmetic is modulo 2^SizeBits.  The only overflow the code can
\* reach is 0 - 1 in size(); TLC's integers are 32 bits wide, so the model
\* keeps the wrap-around but not the 64 bits of the build.
SizeBits == 16

VARIABLES
  heap,     \* std::vector<T> heap
  pc,       \* "idle" | "insert" | "removeMin" | "undefined"
  val,      \* insert: the parameter val
  entryNo,  \* insert: the local entryNo
  save,     \* removeMin: the local save
  i,        \* removeMin: the local i
  ret,      \* value returned by the last completed call
  lastOp,   \* last completed call
  raised,   \* error raised by the last completed call
  oob,      \* the current/last call indexed heap outside 0..heap.size()-1
  pre,      \* multiset held when the current/last mutation was called
  k,        \* completed insert calls
  j,        \* completed removeMin calls
  phase,    \* harness: "fill" | "drain" | "mixed"
  v,        \* harness: the mirror vector v
  out,      \* harness: values removeMin returned, in order
  swaps,    \* calls of swap made by the current/last insert or removeMin
  heap0     \* the vector when the current/last insert or removeMin was called

vars == <<heap, pc, val, entryNo, save, i, ret, lastOp, raised, oob, pre,
          k, j, phase, v, out, swaps, heap0>>

\* ------------------------------------------------------------ helpers
\* heap[p] of the source, for p inside the vector.
at(h, p) == h[p + 1]

\* heap[p] where p may lie outside the vector: operator[] does not check,
\* and the read yields whatever the storage holds there, g, an arbitrary
\* value.  Within one evaluation of an expression nothing is written, so
\* two reads of the same position yield the same g.
rd(h, p, g) == IF p < Len(h) THEN h[p + 1] ELSE g

\* Mutant of sizeOf: the filler is counted.
sizeOfWithFiller(h) == Len(h) % (2 ^ SizeBits)

sizeOf(h) == (Len(h) - 1) % (2 ^ SizeBits)

size == sizeOf(heap)

\* Mutant of parent: the halving rounds up.
parentRoundsUp(loc) == (loc + 1) \div 2

parent(loc) == loc \div 2

leftChild(loc) == loc * 2

rightChild(loc) == loc * 2 + 1

\* Mutant of leftInBounds: the last position is taken to be out of bounds.
leftInBoundsStrict(h, loc) == leftChild(loc) < sizeOf(h)

leftInBounds(h, loc) == leftChild(loc) <= sizeOf(h)

rightInBounds(h, loc) == rightChild(loc) <= sizeOf(h)

\* Mutant of minChild: the comparison of the two children is inverted.
minChildGreater(h, pos) ==
  IF leftInBounds(h, pos) /\ rightInBounds(h, pos)
  THEN IF at(h, rightChild(pos)) < at(h, leftChild(pos))
       THEN leftChild(pos) ELSE rightChild(pos)
  ELSE IF leftInBounds(h, pos) THEN leftChild(pos)
  ELSE pos

\* Mutant of minChild: the left child is returned whenever it is in bounds.
minChildLeft(h, pos) == IF leftInBounds(h, pos) THEN leftChild(pos) ELSE pos

minChild(h, pos) ==
  IF leftInBounds(h, pos) /\ rightInBounds(h, pos)
  THEN IF at(h, leftChild(pos)) < at(h, rightChild(pos))
       THEN leftChild(pos) ELSE rightChild(pos)
  ELSE IF leftInBounds(h, pos) THEN leftChild(pos)
  ELSE pos

\* Mutant of swap: heap[a] = heap[b] without saving heap[a].
swapOverwrite(h, a, b) == [h EXCEPT ![a + 1] = h[b + 1]]

swap(h, a, b) == [h EXCEPT ![a + 1] = h[b + 1], ![b + 1] = h[a + 1]]

\* min(): return heap[01];
minOf(h) == at(h, 1)

\* Mutant of popRoot: the last entry is dropped without being moved to the root.
popRootDropLast(h) == SubSeq(h, 1, Len(h) - 1)

\* Mutant of popRoot: the root is taken to be position 0.
popRootZeroBased(h) == SubSeq([h EXCEPT ![1] = h[Len(h)]], 1, Len(h) - 1)

\* removeMin: heap[1] = heap.back(); heap.pop_back();
popRoot(h) == SubSeq([h EXCEPT ![2] = h[Len(h)]], 1, Len(h) - 1)

\* Multiset of the live entries (positions 1..size()).
Held(h) ==
  [x \in Values |-> Cardinality({p \in 1 .. (Len(h) - 1) : h[p + 1] = x})]

\* ------------------------------------------------------------- insert
\* Mutant of InsertCond: the loop stops one level below the root.
InsertCondBelowRoot(h, e, x) == e > 2 /\ x < at(h, parent(e))

\* Mutant of InsertCond: the comparison is not strict.
InsertCondLessEq(h, e, x) == e > 1 /\ x <= at(h, parent(e))

\* while(entryNo > 01 && val < heap[parent(entryNo)])
InsertCond(h, e, x) == e > 1 /\ x < at(h, parent(e))

\* ---------------------------------------------------------- removeMin
\* Mutant of RemoveCond: the comparison is inverted.
RemoveCondInverted(h, n, g) == rd(h, n, g) < rd(h, minChild(h, n), g)

\* while(heap[(swaper = minChild(i))] < heap[i])
\* After the last entry was removed the vector holds only the filler and
\* minChild(1) = 1: both operands read position 1 outside the vector.
RemoveCond(h, n, g) == rd(h, minChild(h, n), g) < rd(h, n, g)

\* The loop condition indexes the vector outside its elements.
RemoveReadsOutside(h, n) == n >= Len(h) \/ minChild(h, n) >= Len(h)

\* ------------------------------------------------------------ harness
\* tester<T>::isHeapOrder
isHeapOrder(h) ==
  \A p \in 1 .. sizeOf(h) :
    /\ (parent(p) > 0) => (at(h, parent(p)) < at(h, p))
    /\ leftInBounds(h, p) => (at(h, p) < at(h, leftChild(p)))
    /\ rightInBounds(h, p) => (at(h, p) < at(h, rightChild(p)))

RECURSIVE InsertSorted(_, _)
InsertSorted(s, x) ==
  IF s = <<>> THEN <<x>>
  ELSE IF Head(s) < x THEN <<Head(s)>> \o InsertSorted(Tail(s), x)
  ELSE <<x>> \o s

\* sort(v.begin(), v.end())
RECURSIVE Sorted(_)
Sorted(s) == IF s = <<>> THEN <<>> ELSE InsertSorted(Sorted(Tail(s)), Head(s))

\* -------------------------------------------------------------- state
Init ==
  /\ heap = <<Filler>>
  /\ pc = "idle"
  /\ val = 0
  /\ entryNo = 0
  /\ save = 0
  /\ i = 0
  /\ ret = 0
  /\ lastOp = "none"
  /\ raised = "none"
  /\ oob = FALSE
  /\ pre = [x \in Values |-> 0]
  /\ k = 0
  /\ j = 0
  /\ phase = "fill"
  /\ v = <<>>
  /\ out = <<>>
  /\ swaps = 0
  /\ heap0 = <<Filler>>

\* insert(val): heap.push_back(val); entryNo = size();
InsertCall(x) ==
  /\ pc = "idle"
  /\ k < MaxInserts
  /\ pc' = "insert"
  /\ heap' = Append(heap, x)
  /\ val' = x
  /\ entryNo' = sizeOf(Append(heap, x))
  /\ pre' = Held(heap)
  /\ oob' = FALSE
  /\ IF phase = "fill"
     THEN /\ v' = Append(v, x)
          /\ UNCHANGED <<phase, out>>
     ELSE /\ phase' = "mixed"
          /\ v' = <<>>
          /\ out' = <<>>
  /\ swaps' = 0
  /\ heap0' = heap
  /\ UNCHANGED <<save, i, ret, lastOp, raised, k, j>>

\* insert: one iteration of the sift-up loop.
InsertStep ==
  /\ pc = "insert"
  /\ InsertCond(heap, entryNo, val)
  /\ heap' = swap(heap, entryNo, parent(entryNo))
  /\ entryNo' = parent(entryNo)
  /\ swaps' = swaps + 1
  /\ UNCHANGED <<pc, val, save, i, ret, lastOp, raised, oob, pre, k, j,
                 phase, v, out, heap0>>

\* insert: the loop condition is false, the call returns.
InsertReturn ==
  /\ pc = "insert"
  /\ ~InsertCond(heap, entryNo, val)
  /\ pc' = "idle"
  /\ lastOp' = "insert"
  /\ raised' = "none"
  /\ k' = k + 1
  /\ UNCHANGED <<heap, val, entryNo, save, i, ret, oob, pre, j, phase, v, out,
                 swaps, heap0>>

\* removeMin() with size() >= 1:
\* save = heap[1]; heap[1] = heap.back(); heap.pop_back(); i = 1;
RemoveMinCall ==
  /\ pc = "idle"
  /\ size >= 1
  /\ pc' = "removeMin"
  /\ save' = at(heap, 1)
  /\ heap' = popRoot(heap)
  /\ i' = 1
  /\ pre' = Held(heap)
  /\ oob' = FALSE
  /\ phase' = IF phase = "fill" THEN "drain" ELSE phase
  /\ swaps' = 0
  /\ heap0' = heap
  /\ UNCHANGED <<val, entryNo, ret, lastOp, raised, k, j, v, out>>

\* removeMin: one iteration of the sift-down loop.
RemoveMinStep ==
  /\ pc = "removeMin"
  /\ \E g \in Values : RemoveCond(heap, i, g)
  /\ heap' = swap(heap, i, minChild(heap, i))
  /\ i' = minChild(heap, i)
  /\ oob' = (oob \/ RemoveReadsOutside(heap, i))
  /\ swaps' = swaps + 1
  /\ UNCHANGED <<pc, val, entryNo, save, ret, lastOp, raised, pre, k, j,
                 phase, v, out, heap0>>

\* removeMin: the loop condition is false, return save.
RemoveMinReturn ==
  /\ pc = "removeMin"
  /\ \E g \in Values : ~RemoveCond(heap, i, g)
  /\ pc' = "idle"
  /\ ret' = save
  /\ lastOp' = "removeMin"
  /\ raised' = "none"
  /\ oob' = (oob \/ RemoveReadsOutside(heap, i))
  /\ j' = j + 1
  /\ out' = IF phase = "drain" THEN Append(out, save) ELSE out
  /\ UNCHANGED <<heap, val, entryNo, save, i, pre, k, phase, v, swaps, heap0>>

\* Mutant of Min: the root is removed as it is returned.
MinRemoves ==
  /\ pc = "idle"
  /\ size >= 1
  /\ ret' = minOf(heap)
  /\ heap' = popRoot(heap)
  /\ lastOp' = "min"
  /\ raised' = "none"
  /\ oob' = FALSE
  /\ UNCHANGED <<pc, val, entryNo, save, i, pre, k, j, phase, v, out, swaps,
                 heap0>>

\* min() with size() >= 1: return heap[01];
Min ==
  /\ pc = "idle"
  /\ size >= 1
  /\ ret' = minOf(heap)
  /\ lastOp' = "min"
  /\ raised' = "none"
  /\ oob' = FALSE
  /\ UNCHANGED <<heap, pc, val, entryNo, save, i, pre, k, j, phase, v, out,
                 swaps, heap0>>

\* size(): return (heap.size() - 01);
Size ==
  /\ pc = "idle"
  /\ ret' = size
  /\ lastOp' = "size"
  /\ raised' = "none"
  /\ oob' = FALSE
  /\ UNCHANGED <<heap, pc, val, entryNo, save, i, pre, k, j, phase, v, out,
                 swaps, heap0>>

\* min() with size() == 0: heap[01] lies outside the one-entry vector; the
\* call returns what the storage holds there.
MinEmpty ==
  /\ pc = "idle"
  /\ size = 0
  /\ \E g \in Values : ret' = rd(heap, 1, g)
  /\ lastOp' = "min"
  /\ raised' = "none"
  /\ oob' = TRUE
  /\ UNCHANGED <<heap, pc, val, entryNo, save, i, pre, k, j, phase, v, out,
                 swaps, heap0>>

\* removeMin() with size() == 0: save = heap[1] and heap[1] = heap.back()
\* index outside the vector, pop_back() removes the filler, size() wraps and
\* the loop runs over storage the vector does not own.  What follows is
\* undefined; the model stops the run there.
RemoveMinEmpty ==
  /\ pc = "idle"
  /\ size = 0
  /\ pc' = "undefined"
  /\ \E g \in Values : save' = rd(heap, 1, g)
  /\ heap' = SubSeq(heap, 1, Len(heap) - 1)
  /\ i' = 1
  /\ \E g \in Values : ret' = g
  /\ lastOp' = "removeMin"
  /\ raised' = "none"
  /\ oob' = TRUE
  /\ pre' = Held(heap)
  /\ swaps' = 0
  /\ heap0' = heap
  /\ UNCHANGED <<val, entryNo, k, j, phase, v, out>>

\* A client that keeps removeMin's and min's precondition size() >= 1.
Next ==
  \/ \E x \in Values : InsertCall(x)
  \/ InsertStep
  \/ InsertReturn
  \/ RemoveMinCall
  \/ RemoveMinStep
  \/ RemoveMinReturn
  \/ Min
  \/ Size

Spec == Init /\ [][Next]_vars

\* Any client: min and removeMin are also called on the empty queue.
NextAny ==
  \/ Next
  \/ MinEmpty
  \/ RemoveMinEmpty

SpecAny == Init /\ [][NextAny]_vars

\* A call that has started keeps running: the loop of insert, and the loop of
\* removeMin, takes its next iteration or its exit.
SpecFair ==
  /\ Init
  /\ [][Next]_vars
  /\ WF_vars(InsertStep \/ InsertReturn \/ RemoveMinStep \/ RemoveMinReturn)

\* ------------------------------------------------------------- claims
\* C1: after every completed insert or removeMin (removeMin only with
\* size() >= 1) no live entry is strictly less than its parent: for every
\* position p in 2..size(), NOT (heap[p] < heap[p/2]).
C1_HeapOrder ==
  pc = "idle" =>
    \A p \in 2 .. size : ~(at(heap, p) < at(heap, p \div 2))

\* A removeMin that sifted down and an insert that sifted up have completed,
\* and the heap holds equal entries.
C1_Witness ==
  /\ pc = "idle"
  /\ lastOp = "removeMin"
  /\ size >= 3
  /\ i > 1
  /\ entryNo = 1
  /\ \E p \in 2 .. size : at(heap, p) = at(heap, p \div 2)

\* C2: in any interleaving, a removeMin called with size() >= 1 returns a
\* minimum of the multiset held before the call, and the multiset held
\* afterwards is the previous one less one occurrence of the returned value.
C2_RemoveMinReturnsMinimum ==
  (pc = "idle" /\ lastOp = "removeMin") =>
    /\ pre[ret] >= 1
    /\ \A x \in Values : (pre[x] >= 1) => ~(x < ret)
    /\ Held(heap) = [pre EXCEPT ![ret] = @ - 1]

\* removeMin returned in an interleaved run, from a heap of at least three
\* entries that held the returned value twice, after sifting down.
C2_Witness ==
  /\ pc = "idle"
  /\ lastOp = "removeMin"
  /\ phase = "mixed"
  /\ size >= 2
  /\ pre[ret] >= 2
  /\ i > 1

\* C3: inserting n values (duplicates allowed) in any order into the empty
\* queue and then calling removeMin n times yields the values sorted in
\* non-decreasing order.
C3_SortingEquivalence ==
  (pc = "idle" /\ phase = "drain" /\ Len(out) = Len(v)) => out = Sorted(v)

\* Four or more values with a duplicate, inserted out of order, fully drained.
C3_Witness ==
  /\ pc = "idle"
  /\ phase = "drain"
  /\ Len(v) >= 4
  /\ Len(out) = Len(v)
  /\ v # Sorted(v)
  /\ \E a, b \in 1 .. Len(v) : a # b /\ v[a] = v[b]

\* C4: a new queue has size() == 0, and after k completed inserts and j
\* completed removeMins (each called with size() >= 1) size() == k - j.
C4_SizeAccounting ==
  /\ (pc = "idle") => (size = k - j)
  /\ (pc = "idle" /\ lastOp = "size") => (ret = k - j)
  /\ (k = 0 /\ j = 0 /\ pc = "idle") => (size = 0)

\* size() was called after inserts and removals and returned a positive count.
C4_Witness ==
  /\ pc = "idle"
  /\ lastOp = "size"
  /\ k >= 3
  /\ j >= 1
  /\ ret = k - j
  /\ ret >= 1

\* C5: removeMin called with size() == 0 fails with EmptyCollection and
\* leaves the storage, the filler at position 0 included, and size() == 0
\* unchanged.
C5_RemoveMinOnEmptyFails ==
  [][RemoveMinEmpty =>
       (raised' = "EmptyCollection" /\ heap' = heap /\ sizeOf(heap') = 0)]_vars

\* C6: min() called with size() == 0 fails with EmptyCollection and reads no
\* position outside the vector.
C6_MinOnEmptyFails ==
  [][MinEmpty => (raised' = "EmptyCollection" /\ ~oob')]_vars

\* C7: with size() >= 1, min() returns the entry at position 1, no held
\* entry is strictly less than it, and a removeMin called next returns it.
C7_MinIsMinimum ==
  /\ (pc = "idle" /\ lastOp = "min") =>
       /\ ret = at(heap, 1)
       /\ \A p \in 1 .. size : ~(at(heap, p) < ret)
  /\ (pc = "removeMin" /\ lastOp = "min") => (save = ret)
  /\ (pc = "idle" /\ lastOp = "removeMin") => (ret = save)

\* min() was called on a heap of at least three entries left by a removeMin
\* that sifted down.
C7_Witness ==
  /\ pc = "idle"
  /\ lastOp = "min"
  /\ size >= 3
  /\ j >= 1
  /\ i > 1

\* C8: min() and size() change neither size() nor any entry of the storage,
\* and min() called twice in a row returns the same value.
C8_QueriesReadOnly ==
  /\ [][(pc = "idle" /\ pc' = "idle" /\ lastOp' \in {"min", "size"})
          => (heap' = heap /\ sizeOf(heap') = sizeOf(heap))]_vars
  /\ [][(pc = "idle" /\ pc' = "idle" /\ lastOp = "min" /\ lastOp' = "min")
          => (ret' = ret)]_vars

\* min() returned on a heap of at least two entries.
C8_Witness ==
  /\ pc = "idle"
  /\ lastOp = "min"
  /\ size >= 2
  /\ ret = at(heap, 1)

\* C9: the harness's strict check isHeapOrder holds after every insert and
\* before every removeMin of the harness, for any inserted values, equal
\* values included.
C9_StrictHeapOrder ==
  (pc = "idle" /\ phase \in {"fill", "drain"}) => isHeapOrder(heap)

\* C10: insert(val) adds exactly one occurrence of val to the held multiset
\* and nothing else; the sift-up only permutes the entries.
C10_InsertAddsOne ==
  (pc = "insert" \/ (pc = "idle" /\ lastOp = "insert")) =>
    Held(heap) = [pre EXCEPT ![val] = @ + 1]

\* insert returned after sifting the new entry from position 4 or below up
\* to the root.
C10_Witness ==
  /\ pc = "idle"
  /\ lastOp = "insert"
  /\ size >= 4
  /\ entryNo = 1
  /\ pre[val] = 0

\* C11: removeMin sifts down only if the heap is non-empty after the
\* removal: every position its loop condition reads lies within 1..size()
\* of the shrunken heap, so with size() == 1 at the call no compare is made.
C11_SiftDownWithinLiveRange ==
  /\ (pc = "removeMin") =>
       /\ 1 <= i /\ i <= size
       /\ 1 <= minChild(heap, i) /\ minChild(heap, i) <= size
  /\ (pc = "idle" /\ lastOp = "removeMin") => ~oob

RECURSIVE FloorLog2(_)
FloorLog2(n) == IF n <= 1 THEN 0 ELSE 1 + FloorLog2(n \div 2)

\* C14: every insert and every removeMin called with size() >= 1 returns,
\* insert after at most floor(log2(n)) swaps, n being size() after it, and
\* removeMin after at most floor(log2(m)) swaps, m >= 1 being size() after it:
\* an iteration of insert's loop strictly decreases entryNo, which stays >= 1,
\* an iteration of removeMin's loop strictly increases i, which stays
\* <= size(), and a call in its loop can always take an iteration or return.
C14_TerminatesWithinLogSwaps ==
  /\ []((pc = "insert" \/ (pc = "idle" /\ lastOp = "insert")) =>
          (swaps <= FloorLog2(size)))
  /\ []((pc = "removeMin" \/ (pc = "idle" /\ lastOp = "removeMin")) =>
          (swaps <= FloorLog2(size)))
  /\ [][(pc = "insert" /\ pc' = "insert") =>
          (1 <= entryNo' /\ entryNo' < entryNo /\ swaps' = swaps + 1)]_vars
  /\ [][(pc = "removeMin" /\ pc' = "removeMin") =>
          (i < i' /\ i' <= size /\ size' = size /\ swaps' = swaps + 1)]_vars
  /\ []((pc = "insert") => ENABLED (InsertStep \/ InsertReturn))
  /\ []((pc = "removeMin") => ENABLED (RemoveMinStep \/ RemoveMinReturn))

\* C14 as a liveness property of SpecFair: a call that has started returns.
C14_ReturnsUnderFairness == (pc # "idle") ~> (pc = "idle")

\* removeMin returned after two swaps, leaving four entries.
C14_Witness ==
  /\ pc = "idle"
  /\ lastOp = "removeMin"
  /\ size = 4
  /\ swaps = 2
  /\ i = 4

\* C15: with removeMin called only on a non-empty queue, the filler at
\* position 0 is never removed, overwritten or swapped: the vector always
\* holds it, every swap has both indices >= 1 and size() never wraps.
C15_FillerKept ==
  /\ [](Len(heap) >= 1 /\ at(heap, 0) = Filler /\ size = Len(heap) - 1)
  /\ [][heap'[1] = heap[1]]_vars
  /\ [][(pc = "insert" /\ swaps' = swaps + 1) =>
          (entryNo >= 1 /\ entryNo' >= 1)]_vars
  /\ [][(pc = "removeMin" /\ swaps' = swaps + 1) => (i >= 1 /\ i' >= 1)]_vars

\* The queue was drained to empty by removeMin calls that swapped at the root.
C15_Witness ==
  /\ pc = "idle"
  /\ lastOp = "removeMin"
  /\ Len(heap) = 1
  /\ k >= 3
  /\ j = k
  /\ entryNo = 1

\* C16: while insert or removeMin is rebalancing, the heap order is violated
\* at most around the moving entry: in insert every pair (p/2, p) with
\* p # entryNo is in order, in removeMin every pair whose parent is not i is
\* in order, and when the loop has exited every pair is in order.
C16_ViolationOnlyAtMovingEntry ==
  /\ (pc = "insert") =>
       \A p \in 2 .. size :
         (p # entryNo) => ~(at(heap, p) < at(heap, p \div 2))
  /\ (pc = "removeMin") =>
       \A p \in 2 .. size :
         ((p \div 2) # i) => ~(at(heap, p) < at(heap, p \div 2))
  /\ (pc = "idle" /\ lastOp \in {"insert", "removeMin"}) =>
       \A p \in 2 .. size : ~(at(heap, p) < at(heap, p \div 2))

\* removeMin has moved the entry to position 2, where it is still greater
\* than its child.
C16_Witness ==
  /\ pc = "removeMin"
  /\ i = 2
  /\ swaps = 1
  /\ size >= 4
  /\ at(heap, 4) < at(heap, 2)

=============================================================================
